---------------------------- MODULE Spec2Model ----------------------------
(***************************************************************************)
(* Model of dags/erp_aps_integracao.py: the Airflow DAG erp_aps_integracao *)
(* (Oracle -> SQL Server replace-load, reverse copy of the schedule table, *)
(* reset of the run-enable flag) together with the pure helpers it uses    *)
(* (get_sqlserver_schema, normalize_column_names, cast_df_to_schema,       *)
(* safe_insert_rows, enviar_email_erro).                                   *)
(*                                                                         *)
(* Column names are sequences of one-character strings, so that lower()    *)
(* and replace('_', '') are computed and not tabulated.  Python values are *)
(* records [t |-> python type, v |-> printed value].  A DataFrame is a     *)
(* record [cols |-> sequence of labels, rows |-> sequence of rows], a row  *)
(* being a sequence of values aligned with cols; labels may repeat, as in  *)
(* pandas.                                                                 *)
(***************************************************************************)
EXTENDS Integers, Sequences, FiniteSets, TLC

(***************************************************************************)
(* Bounds of the model.                                                    *)
(***************************************************************************)
\* number of run slots the scheduler may hold at once (max_active_runs
\* decides how many of them are used)
MaxSlots == 2

(***************************************************************************)
(* Generic helpers on sequences.                                           *)
(***************************************************************************)
Range(s) == {s[i] : i \in 1..Len(s)}

RECURSIVE Concat(_)
Concat(ss) ==
    IF ss = <<>> THEN <<>> ELSE Head(ss) \o Concat(Tail(ss))

\* the positions of s that hold x, in increasing order
Positions(s, x) ==
    LET RECURSIVE from(_)
        from(i) == IF i > Len(s) THEN <<>>
                   ELSE (IF s[i] = x THEN <<i>> ELSE <<>>) \o from(i + 1)
    IN  from(1)

\* the first n elements of s
Prefix(s, n) == SubSeq(s, 1, IF n < Len(s) THEN n ELSE Len(s))

(***************************************************************************)
(* Program constants (lines 17-58).                                        *)
(***************************************************************************)
SQLSERVER_TO_PY(sql_type) ==
    CASE sql_type \in {"int", "bigint", "smallint", "tinyint"} -> "int64"
      [] sql_type = "bit" -> "bool"
      [] sql_type \in {"money", "smallmoney", "decimal", "numeric",
                       "float", "real"} -> "float64"
      [] sql_type \in {"varchar", "nvarchar", "char", "nchar", "text",
                       "ntext", "time"} -> "object"
      [] sql_type \in {"datetime", "smalldatetime", "date", "datetime2"}
            -> "datetime64[ns]"
      [] OTHER -> "object"        \* SQLSERVER_TO_PY.get(sql_type, "object")

DATETIME_TYPES == {"datetime", "datetime2", "smalldatetime"}
DATE_TYPES     == {"date"}
TIME_TYPES     == {"time"}

\* COLUMN_MAPPING = {}: a set of <<oracle name, sql server name>> pairs
COLUMN_MAPPING == {}

\* commit_every=1000 at the call of safe_insert_rows
commit_every == 1000

\* a DAG that lets two runs be active at once
max_active_runs_two == 1 + 1

\* max_active_runs=1 of the DAG
max_active_runs == 1

(***************************************************************************)
(* str.lower() and str.replace('_', '') on names.                          *)
(***************************************************************************)
LowerChar(c) ==
    CASE c = "A" -> "a" [] c = "D" -> "d" [] c = "I" -> "i"
      [] c = "Q" -> "q" [] c = "T" -> "t" [] c = "X" -> "x"
      [] OTHER -> c

lower(name) == [i \in 1..Len(name) |-> LowerChar(name[i])]

replace_underscore(name) == SelectSeq(name, LAMBDA c : c # "_")

\* DATA_TYPE.lower() on the type names the catalog returns
lower_type(t) ==
    CASE t = "INT" -> "int" [] t = "BIT" -> "bit" [] t = "DATE" -> "date"
      [] t = "VARCHAR" -> "varchar" [] t = "DECIMAL" -> "decimal"
      [] t = "DATETIME" -> "datetime" [] t = "TIME" -> "time"
      [] OTHER -> t


(***************************************************************************)
(* Python values.                                                          *)
(***************************************************************************)
PyVal(t, v) == [t |-> t, v |-> v]

None    == PyVal("NoneType", "None")
NaN     == PyVal("float", "nan")
NaT     == PyVal("NaTType", "NaT")
PyFalse == PyVal("bool", "False")
PyTrue  == PyVal("bool", "True")

\* pd.isna / pd.isnull on a scalar
isna(x) == x \in {None, NaN, NaT}

\* bool(x), as astype(bool) applies it to the values of an object column
truthy(x) ==
    ~ (x \in {None, PyFalse, PyVal("int", "0"), PyVal("float", "0.0"),
              PyVal("str", "")})

(***************************************************************************)
(* get_sqlserver_schema (lines 104-126): the catalog rows, as              *)
(* <<COLUMN_NAME, DATA_TYPE>> pairs in ORDINAL_POSITION order, become the  *)
(* insertion-ordered dict {col.lower(): dtype.lower()}; a key met again    *)
(* keeps its place and takes the later type.                               *)
(***************************************************************************)
keys(schema_map) == [i \in 1..Len(schema_map) |-> schema_map[i][1]]

dict_set(d, k, val) ==
    IF k \in Range(keys(d))
    THEN [i \in 1..Len(d) |-> IF d[i][1] = k THEN <<k, val>> ELSE d[i]]
    ELSE Append(d, <<k, val>>)

RECURSIVE schema_dict(_)
schema_dict(rows) ==
    IF rows = <<>> THEN <<>>
    ELSE LET r == rows[Len(rows)]
         IN  dict_set(schema_dict(SubSeq(rows, 1, Len(rows) - 1)),
                      lower(r[1]), lower_type(r[2]))

\* schema.get(col, '')
schema_get(schema_map, col) ==
    IF col \in Range(keys(schema_map))
    THEN schema_map[CHOOSE i \in 1..Len(schema_map) : schema_map[i][1] = col][2]
    ELSE ""

(***************************************************************************)
(* normalize_column_names (lines 128-161).                                 *)
(***************************************************************************)
normalize(name) == replace_underscore(lower(name))

\* normalized_schema = {k.lower().replace('_', ''): k for k in schema_map}:
\* of the keys that share a normalized form the last one stays
normalized_schema(schema_map) ==
    LET ks == keys(schema_map)
        RECURSIVE build(_)
        build(n) == IF n = 0 THEN <<>>
                    ELSE dict_set(build(n - 1), normalize(ks[n]), ks[n])
    IN  build(Len(ks))

\* the label a column of the DataFrame has after the rename
rename_target(df_col, schema_map) ==
    LET ks  == Range(keys(schema_map))
        ns  == normalized_schema(schema_map)
        ali == {p \in COLUMN_MAPPING : p[1] = df_col /\ p[2] \in ks}
    IN  IF df_col \in ks THEN df_col
        ELSE IF ali # {} THEN (CHOOSE p \in ali : TRUE)[2]
        ELSE IF normalize(df_col) \in Range(keys(ns))
             THEN schema_get(ns, normalize(df_col))
        ELSE df_col

normalize_column_names(df, schema_map) ==
    [df EXCEPT !.cols =
        [i \in 1..Len(df.cols) |-> rename_target(df.cols[i], schema_map)]]

(***************************************************************************)
(* The column reconciliation of extrai_envia_sqlserver (lines 290-306).    *)
(***************************************************************************)
\* df[positions]: the columns at the given positions, in that order
take_columns(df, pos) ==
    [cols |-> [i \in 1..Len(pos) |-> df.cols[pos[i]]],
     rows |-> [r \in 1..Len(df.rows) |->
                 [i \in 1..Len(pos) |-> df.rows[r][pos[i]]]]]

\* missing_cols, and df[col] = None for each of them (lines 292-296)
missing_cols(df, schema_map) ==
    SelectSeq(keys(schema_map), LAMBDA col : col \notin Range(df.cols))

add_missing(df, schema_map) ==
    LET miss == missing_cols(df, schema_map)
    IN  [cols |-> df.cols \o miss,
         rows |-> [r \in 1..Len(df.rows) |->
                     df.rows[r] \o [i \in 1..Len(miss) |-> None]]]

\* extra_cols, and df.drop(columns=extra_cols) (lines 298-301)
drop_extra(df, schema_map) ==
    LET keep == SelectSeq([i \in 1..Len(df.cols) |-> i],
                          LAMBDA i : df.cols[i] \in Range(keys(schema_map)))
    IN  take_columns(df, keep)

\* normalize, backfill, drop: the table cast_df_to_schema is given
reconcile(df, schema_map) ==
    drop_extra(add_missing(normalize_column_names(df, schema_map), schema_map),
               schema_map)

\* df[cols_ordered] (lines 305-306): selecting by label takes every column
\* that carries the label
reorder(df, schema_map) ==
    take_columns(df, Concat([i \in 1..Len(schema_map) |->
                               Positions(df.cols, schema_map[i][1])]))

(***************************************************************************)
(* cast_df_to_schema (lines 163-202), value by value.                      *)
(***************************************************************************)
\* pd.to_numeric(errors="coerce") on one value: what does not parse is NaN
to_numeric(x) ==
    CASE x.t \in {"int", "float"} -> x
      [] x.t = "bool" -> PyVal("int", IF x = PyTrue THEN "1" ELSE "0")
      [] x.t = "str" /\ x.v \in {"0", "7", "12"} -> PyVal("int", x.v)
      [] x.t = "str" /\ x.v \in {"2.5"} -> PyVal("float", x.v)
      [] x.t = "str" /\ x.v \in {"inf", "Infinity"} -> PyVal("float", "inf")
      [] OTHER -> NaN

\* a float that astype("int64") cannot convert
non_finite(x) == x \in {NaN, PyVal("float", "inf"), PyVal("float", "-inf")}

\* astype("int64") on a finite number: the fraction is cut off
to_int64(x) ==
    CASE x.t = "int" -> x
      [] x = PyVal("float", "2.5") -> PyVal("int", "2")
      [] x = PyVal("float", "0.0") -> PyVal("int", "0")
      [] OTHER -> PyVal("int", x.v)

\* the <<date, time>> pd.to_datetime(errors="coerce") reads from a value,
\* <<>> when it reads none (NaT)
parse_datetime(x, dayfirst) ==
    CASE x.t = "str" /\ x.v = "31/12/2024" -> <<"2024-12-31", "00:00:00">>
      [] x.t = "str" /\ x.v = "03/04/2024" ->
            IF dayfirst THEN <<"2024-04-03", "00:00:00">>
                        ELSE <<"2024-03-04", "00:00:00">>
      [] x.t \in {"str", "Timestamp"} /\ x.v = "2024-12-31 10:20:30" ->
            <<"2024-12-31", "10:20:30">>
      [] x.t = "int" -> <<"1970-01-01", "00:00:00">>   \* nanoseconds of the epoch
      [] OTHER -> <<>>

\* the value a column of type sql_type holds after the per-column branch
cast_value(sql_type, x) ==
    LET target == SQLSERVER_TO_PY(sql_type)
    IN  CASE sql_type \in DATETIME_TYPES ->
                LET p == parse_datetime(x, FALSE)
                IN  IF p = <<>> THEN None
                    ELSE PyVal("datetime", p[1] \o " " \o p[2])
          [] sql_type \in DATE_TYPES ->
                LET p == parse_datetime(x, TRUE)
                IN  IF p = <<>> THEN None ELSE PyVal("date", p[1])
          [] sql_type \in TIME_TYPES ->
                LET p == parse_datetime(x, FALSE)
                IN  IF p = <<>> THEN None ELSE PyVal("time", p[2])
          [] target = "int64" ->
                LET n == to_numeric(x)
                IN  to_int64(IF n = NaN THEN PyVal("int", "0") ELSE n)
          [] target = "float64" -> to_numeric(x)
          [] target = "bool" -> IF truthy(IF isna(x) THEN PyFalse ELSE x)
                                THEN PyTrue ELSE PyFalse
          [] OTHER -> x

\* astype("int64") raises on a value fillna(0) leaves non-finite
cast_value_raises(sql_type, x) ==
    /\ ~ (sql_type \in DATETIME_TYPES \cup DATE_TYPES \cup TIME_TYPES)
    /\ SQLSERVER_TO_PY(sql_type) = "int64"
    /\ to_numeric(x) # NaN
    /\ non_finite(to_numeric(x))

\* the last loop (lines 196-200): NaN in a float64 or object column -> None
null_to_none(sql_type, x) ==
    IF SQLSERVER_TO_PY(sql_type) \in {"float64", "object"} /\ isna(x)
    THEN None ELSE x

\* df[col] is a DataFrame, not a Series, when the label col repeats
is_frame(df, col) == Len(Positions(df.cols, col)) > 1

\* a cast that lets every table through
cast_raises_never(df, schema_map) == FALSE

\* whether cast_df_to_schema raises: pd.to_datetime / pd.to_numeric given a
\* DataFrame, astype("int64") given a non-finite value, or .dtype asked of
\* a DataFrame in the last loop
cast_raises(df, schema_map) ==
    \/ \E i \in 1..Len(schema_map) :
          LET col == schema_map[i][1]
              sql_type == schema_map[i][2]
          IN  /\ col \in Range(df.cols)
              /\ \/ /\ is_frame(df, col)
                    /\ \/ sql_type \in DATETIME_TYPES \cup DATE_TYPES \cup TIME_TYPES
                       \/ SQLSERVER_TO_PY(sql_type) \in {"int64", "float64"}
                 \/ \E r \in 1..Len(df.rows) : \E j \in 1..Len(df.cols) :
                       /\ df.cols[j] = col
                       /\ cast_value_raises(sql_type, df.rows[r][j])
    \/ \E j \in 1..Len(df.cols) : is_frame(df, df.cols[j])

\* the DataFrame cast_df_to_schema returns when it does not raise
cast_df_to_schema(df, schema_map) ==
    [df EXCEPT !.rows =
        [r \in 1..Len(df.rows) |->
            [j \in 1..Len(df.cols) |->
                IF df.cols[j] \in Range(keys(schema_map))
                THEN LET sql_type == schema_get(schema_map, df.cols[j])
                     IN  null_to_none(sql_type,
                                      cast_value(sql_type, df.rows[r][j]))
                ELSE IF isna(df.rows[r][j]) THEN None ELSE df.rows[r][j]]]]

(***************************************************************************)
(* safe_insert_rows (lines 204-229) and the hook's insert_rows.            *)
(***************************************************************************)
\* one value of a row tuple
row_value(x) ==
    CASE isna(x) -> None
      [] x.t = "Timestamp" -> PyVal("datetime", x.v)
      [] OTHER -> x

\* rows = [tuple(row[field] for field in target_fields) for each row];
\* df has been reordered to target_fields already
row_tuples(df) ==
    [r \in 1..Len(df.rows) |->
        [j \in 1..Len(df.cols) |-> row_value(df.rows[r][j])]]

\* the rows insert_rows has committed when the execute of row i raises
\* (i = Len(rows) + 1: the last commit raises): a commit follows every
\* commit_every rows, the rest is rolled back with the connection
committed_before(rows, i, every) ==
    Prefix(rows, ((i - 1) \div every) * every)

\* a clear that leaves the rows in place
truncate_nothing(content) == content

\* TRUNCATE TABLE
truncate(content) == <<>>

\* insert_rows that completes
insert_rows(content, rows) == content \o rows

(***************************************************************************)
(* The DAG (lines 406-452).                                                *)
(***************************************************************************)
Tasks == {"inicio", "checa_flag", "extrai_envia_sqlserver", "copia_programacao",
          "ajusta_roda_integraca_aps", "fim_ok", "fim_sem_execucao"}

DummyTasks == {"inicio", "fim_ok", "fim_sem_execucao"}

\* inicio >> branch; branch >> extrai_envia >> copia_prog >> ajusta_tb_config
\* >> fim_ok; branch >> fim_skip
upstream(t) ==
    CASE t = "inicio" -> {}
      [] t = "checa_flag" -> {"inicio"}
      [] t = "extrai_envia_sqlserver" -> {"checa_flag"}
      [] t = "copia_programacao" -> {"extrai_envia_sqlserver"}
      [] t = "ajusta_roda_integraca_aps" -> {"copia_programacao"}
      [] t = "fim_ok" -> {"ajusta_roda_integraca_aps"}
      [] t = "fim_sem_execucao" -> {"checa_flag"}

downstream(t) == {d \in Tasks : t \in upstream(d)}

\* trigger_rule=TriggerRule.NONE_FAILED on fim_ok, the default elsewhere
trigger_rule(t) == IF t = "fim_ok" THEN "none_failed" ELSE "all_success"

Finished == {"success", "failed", "skipped", "upstream_failed"}

\* what the scheduler does with a task that has no state yet, from the
\* states of its upstream tasks: "wait", "run", or the state it gives it
trigger_rule_dep(ts, t) ==
    LET up == upstream(t)
        bad == {u \in up : ts[u] \in {"failed", "upstream_failed"}}
        skp == {u \in up : ts[u] = "skipped"}
        suc == {u \in up : ts[u] = "success"}
    IN  CASE trigger_rule(t) = "all_success" ->
                 IF bad # {} THEN "upstream_failed"
                 ELSE IF skp # {} THEN "skipped"
                 ELSE IF suc = up THEN "run" ELSE "wait"
          [] trigger_rule(t) = "none_failed" ->
                 IF bad # {} THEN "upstream_failed"
                 ELSE IF \A u \in up : ts[u] \in Finished THEN "run"
                 ELSE "wait"

\* the first step of a python callable
first_pc(t) ==
    CASE t = "checa_flag" -> "checa_flag"
      [] t = "extrai_envia_sqlserver" -> "ext_open"
      [] t = "copia_programacao" -> "copy_read"
      [] t = "ajusta_roda_integraca_aps" -> "reset_update"
      [] OTHER -> ""

\* the state of a DAG run whose tasks have all finished: failed when a leaf
\* task failed or was not run because of a failure
leaves == {t \in Tasks : downstream(t) = {}}

dagrun_state(ts) ==
    IF \E t \in leaves : ts[t] \in {"failed", "upstream_failed"}
    THEN "failed" ELSE "success"

(***************************************************************************)
(* The queries file and the name of the destination table (lines 262-282). *)
(* A line is [marker |-> whether it starts with --select, func |-> the     *)
(* function named inside table( ... ), as its words between underscores,   *)
(* <<>> when the statement has no table( ... )].                           *)
(***************************************************************************)
QUERIES_FILE ==
    << [marker |-> TRUE,  func |-> <<"FC", "RETURN", "RS", "LOTE">>],
       [marker |-> FALSE, func |-> <<"FC", "RETURN", "RS", "IGNORADA">>],
       [marker |-> TRUE,  func |-> <<>>],
       [marker |-> TRUE,  func |-> <<"FC", "RETURN", "RS", "REL", "ESTOQUES">>] >>

\* selects = [... for line in f if line.strip().lower().startswith("--select")]
read_selects(file) == SelectSeq(file, LAMBDA line : line.marker)

lower_word(w) ==
    CASE w = "FC" -> "fc" [] w = "RETURN" -> "return" [] w = "RS" -> "rs"
      [] w = "REL" -> "rel" [] w = "LOTE" -> "lote"
      [] w = "ESTOQUES" -> "estoques" [] w = "IGNORADA" -> "ignorada"
      [] OTHER -> w

\* re.sub(r"^fc_return_rs(?:_rel)?_", "", func_name, flags=re.I)
strip_prefix(words) ==
    LET low == [i \in 1..Len(words) |-> lower_word(words[i])]
    IN  IF Len(words) > 3 /\ SubSeq(low, 1, 3) = <<"fc", "return", "rs">>
        THEN IF Len(words) > 4 /\ low[4] = "rel"
             THEN SubSeq(words, 5, Len(words))
             ELSE SubSeq(words, 4, Len(words))
        ELSE words

RECURSIVE join_words(_)
join_words(words) ==
    IF Len(words) = 0 THEN ""
    ELSE IF Len(words) = 1 THEN words[1]
    ELSE words[1] \o "_" \o join_words(Tail(words))

\* destino.replace('estoques', 'estoque')
fix_plural(w) == IF w = "estoques" THEN "estoque" ELSE w

\* destino, from the function of a statement that has one
derive_destino(func) ==
    LET words == strip_prefix(func)
    IN  "dbo." \o join_words([i \in 1..Len(words) |->
                                 fix_plural(lower_word(words[i]))])

(***************************************************************************)
(* The data the two databases may hold or return.  The catalog and the     *)
(* source results are not written by the DAG: each read draws one of them. *)
(***************************************************************************)
\* INFORMATION_SCHEMA.COLUMNS of the destination tables
Catalog(full_name) ==
    CASE full_name = "dbo.lote" ->
            << << <<"I", "d">>, "int" >>, << <<"Q", "_", "T">>, "decimal" >>,
               << <<"d", "t">>, "DATE" >> >>
      [] full_name = "dbo.estoque" ->
            << << <<"i", "d">>, "int" >>, << <<"q", "t">>, "varchar" >>,
               << <<"q", "_", "t">>, "bit" >> >>
      [] OTHER -> <<>>

\* what a statement may return from Oracle (column names as Oracle gives them)
ResultTables ==
    { [cols |-> << <<"I", "D">>, <<"Q", "_", "T">> >>, rows |-> <<>>],
      [cols |-> << <<"I", "D">>, <<"Q", "_", "T">>, <<"D", "T">> >>,
       rows |-> << << PyVal("int", "7"), PyVal("str", "12"),
                      PyVal("str", "31/12/2024") >>,
                   << PyVal("str", "abc"), None,
                      PyVal("str", "03/04/2024") >> >>],
      [cols |-> << <<"X">>, <<"I", "D">> >>,
       rows |-> << << PyVal("str", "abc"), PyVal("float", "2.5") >> >>],
      [cols |-> << <<"Q", "_", "T">>, <<"Q", "T">> >>,
       rows |-> << << PyVal("str", "12"), PyVal("int", "7") >> >>],
      [cols |-> << <<"I", "D">>, <<"Q", "_", "T">> >>,
       rows |-> << << PyVal("float", "inf"), PyVal("float", "2.5") >> >>],
      [cols |-> << <<"I", "D">>, <<"Q", "_", "_", "T">> >>,
       rows |-> << << PyVal("int", "7"), PyVal("str", "abc") >> >>] }

\* what SELECT * FROM LSB_INT_Programacao may return from SQL Server
ProgramacaoTables ==
    { [cols |-> << <<"O", "P">> >>, rows |-> <<>>],
      [cols |-> << <<"O", "P">> >>, rows |-> << << PyVal("int", "7") >> >>],
      [cols |-> << <<"O", "P">> >>,
       rows |-> << << PyVal("int", "7") >>, << PyVal("int", "12") >> >>] }

EmptyDf == [cols |-> <<>>, rows |-> <<>>]

\* an emptiness test that never skips
empty_never(df) == FALSE

\* df.empty
empty(df) == Len(df.cols) = 0 \/ Len(df.rows) = 0

\* df.columns = df.columns.str.lower()
lower_columns(df) ==
    [df EXCEPT !.cols = [j \in 1..Len(df.cols) |-> lower(df.cols[j])]]

DestTables == {"dbo.lote", "dbo.estoque"}

\* the rows the destination tables hold before the first run
OldRows == << << PyVal("int", "1"), None, None >> >>

(***************************************************************************)
(* Exceptions, as [type, msg]: msg is str(e) split at its colons, each     *)
(* part a sequence of words (a table name is one word).                    *)
(***************************************************************************)
NoError == [type |-> "", msg |-> <<>>]

OracleError ==
    [type |-> "DatabaseError",
     msg |-> << <<"ORA-03113">>, <<"end-of-file on communication channel">> >>]

MsSqlError ==
    [type |-> "OperationalError",
     msg |-> << <<"(20009, b'DB-Lib error message 20009')">> >>]

FileNotFoundError ==
    [type |-> "FileNotFoundError",
     msg |-> << <<"Arquivo nao encontrado">>,
                <<"/root/airflow/include/queries_integra_aps.sql">> >>]

\* re.search(...) returned None
NoFunctionError ==
    [type |-> "AttributeError",
     msg |-> << <<"'NoneType' object has no attribute 'group'">> >>]

\* raise ValueError(f"Colunas nao encontradas para {full_name}")
ColumnsNotFound(full_name) ==
    [type |-> "ValueError",
     msg |-> << <<"Colunas nao encontradas para", full_name>> >>]

FrameError ==
    [type |-> "AttributeError",
     msg |-> << <<"'DataFrame' object has no attribute 'dtype'">> >>]

NonFiniteError ==
    [type |-> "ValueError",
     msg |-> << <<"Cannot convert non-finite values (NA or inf) to integer">> >>]

VerifyError ==
    [type |-> "Exception",
     msg |-> << <<"Falha ao verificar atualizacao do parametro RODA_INTEGRACAO_APS">> >>]

\* the exception cast_df_to_schema raises, when it raises
cast_error(df, schema_map) ==
    IF \E j \in 1..Len(df.cols) : is_frame(df, df.cols[j])
    THEN FrameError ELSE NonFiniteError

(***************************************************************************)
(* enviar_email_erro (lines 60-102).                                       *)
(***************************************************************************)
\* erro_principal: the text before the first colon
erro_principal(e) == IF e.msg = <<>> THEN <<>> ELSE e.msg[1]

\* mensagem, as a sequence of words
mensagem(e, contexto) ==
    IF contexto # <<>>
    THEN <<"Falha identificada durante:">> \o contexto \o <<"Erro:">>
            \o erro_principal(e)
    ELSE <<"Erro:">> \o erro_principal(e)

\* the notification log after one call: the call of PC_SEND_MAIL is made,
\* and enviado tells whether it went through; when it raises the exception
\* is caught and printed
enviar_email_erro(notifs, e, contexto, enviado) ==
    Append(notifs, [mensagem |-> mensagem(e, contexto), erro |-> e,
                    enviado |-> enviado])

(***************************************************************************)
(* State.                                                                  *)
(*   flag    TB_CONFIG.VALUE of PARAM = 'RODA_INTEGRACAO_APS' in Oracle    *)
(*           ("absent": no such row)                                       *)
(*   tables  the rows of each destination table in SQL Server              *)
(*   oraProg the rows of SYSDATACOM.TB_LSB_INT_PROGRAMACAO in Oracle       *)
(*   runs    the DAG runs, one per slot: task states, the position and the *)
(*           local variables of the python callable that is running, and   *)
(*           what the run has done so far (ops, notifs, raised)            *)
(***************************************************************************)
VARIABLES flag, tables, oraProg, runs

vars == <<flag, tables, oraProg, runs>>

Slots == 1..MaxSlots

FlagValues == {"S", "N", "absent"}

NoRun ==
    [state |-> "free",
     ts |-> [t \in Tasks |-> "none"],
     pc |-> "",
     flagRead |-> "",
     branch |-> "",
     selects |-> <<>>,
     idx |-> 0,
     destino |-> "",
     df |-> EmptyDf,
     schema |-> <<>>,
     ops |-> <<>>,
     notifs |-> <<>>,
     raised |-> [t \in Tasks |-> NoError],
     failedStmt |-> 0,
     pre |-> [flag |-> "", tables |-> <<>>, oraProg |-> <<>>],
     post |-> [flag |-> "", tables |-> <<>>, oraProg |-> <<>>]]

Init ==
    /\ flag = "N"
    /\ tables = [d \in DestTables |-> OldRows]
    /\ oraProg = << << PyVal("int", "1") >> >>
    /\ runs = [r \in Slots |-> NoRun]

\* one entry of a run's log of database calls;
\* out: "ok" or "raise"; stmt: the statement of the queries file the call is
\* made for (0: none); n: how many rows a SELECT or the catalog query
\* returned; rows: the rows an INSERT committed
DbCall(sys, op, tbl, stmt, n, rows, out) ==
    [sys |-> sys, op |-> op, tbl |-> tbl, stmt |-> stmt, n |-> n,
     rows |-> rows, out |-> out]

active == {r \in Slots : runs[r].state = "running"}

(***************************************************************************)
(* The scheduler.                                                          *)
(***************************************************************************)
\* a scheduled tick creates a run when fewer than max_active_runs are active
StartRun(r) ==
    /\ Cardinality(active) < max_active_runs
    /\ r \notin active
    /\ \A q \in Slots : q < r => q \in active
    /\ runs' = [runs EXCEPT ![r] =
                  [NoRun EXCEPT !.state = "running",
                                !.pre = [flag |-> flag, tables |-> tables,
                                         oraProg |-> oraProg]]]
    /\ UNCHANGED <<flag, tables, oraProg>>

\* the scheduler gives a task without state its state: a DummyOperator that
\* may run succeeds at once, a python task starts
Agenda(r, t) ==
    LET u == runs[r]
        d == trigger_rule_dep(u.ts, t)
    IN  /\ u.state = "running"
        /\ u.ts[t] = "none"
        /\ d # "wait"
        /\ runs' = [runs EXCEPT ![r] =
              IF d # "run" THEN [u EXCEPT !.ts[t] = d]
              ELSE IF t \in DummyTasks THEN [u EXCEPT !.ts[t] = "success"]
              ELSE [u EXCEPT !.ts[t] = "running", !.pc = first_pc(t)]]
        /\ UNCHANGED <<flag, tables, oraProg>>

\* the run ends when every task has finished
UpdateState(r) ==
    LET u == runs[r]
    IN  /\ u.state = "running"
        /\ \A t \in Tasks : u.ts[t] \in Finished
        /\ runs' = [runs EXCEPT ![r] =
              [u EXCEPT !.state = dagrun_state(u.ts),
                        !.post = [flag |-> flag, tables |-> tables,
                                  oraProg |-> oraProg]]]
        /\ UNCHANGED <<flag, tables, oraProg>>

\* somebody outside the DAG writes the flag row (only between runs)
OperadorAjustaFlag(v) ==
    /\ active = {}
    /\ v # flag
    /\ flag' = v
    /\ UNCHANGED <<tables, oraProg, runs>>

(***************************************************************************)
(* How a python callable ends.                                             *)
(***************************************************************************)
\* the locals of the callable are gone
drop_locals(u) ==
    [u EXCEPT !.pc = "", !.selects = <<>>, !.idx = 0, !.destino = "",
              !.df = EmptyDf, !.schema = <<>>]

task_success(u, t) == drop_locals([u EXCEPT !.ts[t] = "success"])

\* the task ends with exception e, after the notifications in notifs
task_raise(u, t, e, notifs) ==
    drop_locals([u EXCEPT !.ts[t] = "failed", !.raised[t] = e,
                          !.notifs = notifs])

\* a handler that lets the error of the mail procedure replace the one it
\* was reporting
except_notify_raise_mail_error(u, t, e, contexto, enviado) ==
    task_raise(u, t,
               IF enviado THEN e
               ELSE [type |-> "DatabaseError", msg |-> << <<"ORA-29278">> >>],
               enviar_email_erro(u.notifs, e, contexto, enviado))

\* except Exception as e: enviar_email_erro(str(e), contexto); raise
except_notify_raise(u, t, e, contexto, enviado) ==
    task_raise(u, t, e, enviar_email_erro(u.notifs, e, contexto, enviado))

(***************************************************************************)
(* checa_flag (lines 231-249).                                             *)
(***************************************************************************)
\* a branch that takes the extraction whatever the flag is
branch_of_always_extract(value) == "extrai_envia_sqlserver"

\* the task id checa_flag returns for the row get_first returned
branch_of(value) ==
    IF value = "S" THEN "extrai_envia_sqlserver" ELSE "fim_sem_execucao"

\* BranchPythonOperator: the tasks right downstream of the branch task that
\* were not chosen are skipped
skip_all_except(u, chosen) ==
    [u EXCEPT !.ts = [t \in Tasks |->
        IF t \in downstream("checa_flag") /\ t # chosen THEN "skipped"
        ELSE u.ts[t]]]

\* a handler that notifies and then takes the skip branch
checa_flag_except_skip(u, enviado) ==
    skip_all_except(
       task_success([u EXCEPT !.flagRead = "error",
                              !.branch = "fim_sem_execucao",
                              !.notifs = enviar_email_erro(u.notifs, OracleError,
                                  <<"verificacao da flag de execucao">>, enviado)],
                    "checa_flag"),
       "fim_sem_execucao")

\* lines 247-249: the read of the flag raised
checa_flag_except(u, enviado) ==
    except_notify_raise([u EXCEPT !.flagRead = "error"], "checa_flag",
                        OracleError, <<"verificacao da flag de execucao">>,
                        enviado)

checa_flag(r) ==
    LET u == runs[r]
    IN  /\ u.state = "running"
        /\ u.pc = "checa_flag"
        /\ \/ \E enviado \in BOOLEAN :
                 runs' = [runs EXCEPT ![r] = checa_flag_except(u, enviado)]
           \/ runs' = [runs EXCEPT ![r] =
                 skip_all_except(
                    task_success([u EXCEPT !.flagRead = flag,
                                           !.branch = branch_of(flag)],
                                 "checa_flag"),
                    branch_of(flag))]
        /\ UNCHANGED <<flag, tables, oraProg>>

(***************************************************************************)
(* extrai_envia_sqlserver (lines 251-345), one action per database call.   *)
(***************************************************************************)
log(u, call) == [u EXCEPT !.ops = Append(@, call)]

\* 'destino' in locals(): the name is bound once a statement has set it, and
\* stays bound for the statements that follow
destino_or_unknown(u) == IF u.destino # "" THEN u.destino ELSE "desconhecida"

\* the for loop goes to the statement after the current one, or the
\* callable returns
next_stmt(u) ==
    IF u.idx < Len(u.selects)
    THEN [u EXCEPT !.idx = @ + 1, !.pc = "ext_query"]
    ELSE task_success(u, "extrai_envia_sqlserver")

\* a handler that notifies and goes on with the next statement
table_failure_continue(u, e, enviado1, enviado2) ==
    next_stmt([u EXCEPT !.failedStmt = u.idx,
                        !.notifs = enviar_email_erro(u.notifs, e,
                            <<"processamento da tabela",
                              IF u.destino # "" THEN u.destino
                              ELSE "desconhecida">>, enviado1)])

\* the inner handler (lines 335-341) and then the outer one (lines 343-345):
\* both notify, and the exception of the statement ends the task
table_failure(u, e, enviado1, enviado2) ==
    LET n1 == enviar_email_erro(u.notifs, e,
                 <<"processamento da tabela", destino_or_unknown(u)>>, enviado1)
        n2 == enviar_email_erro(n1, e,
                 <<"extracao e envio para SQL Server">>, enviado2)
    IN  task_raise([u EXCEPT !.failedStmt = u.idx],
                   "extrai_envia_sqlserver", e, n2)

\* lines 256-267: the file is missing, or its statements are read
ext_open(r) ==
    LET u == runs[r]
    IN  /\ u.state = "running"
        /\ u.pc = "ext_open"
        /\ \/ \E enviado \in BOOLEAN :
                 runs' = [runs EXCEPT ![r] =
                    except_notify_raise(u, "extrai_envia_sqlserver",
                        FileNotFoundError,
                        <<"extracao e envio para SQL Server">>, enviado)]
           \/ runs' = [runs EXCEPT ![r] =
                 next_stmt([u EXCEPT !.selects = read_selects(QUERIES_FILE),
                                     !.idx = 0])]
        /\ UNCHANGED <<flag, tables, oraProg>>

\* lines 271-282: the statement is run in Oracle; an empty result goes to
\* the next statement, another one has its destination derived
ext_query(r) ==
    LET u == runs[r]
        stmt == u.selects[u.idx]
        q(rt) == log(u, DbCall("oracle", "SELECT", "", u.idx,
                               Len(rt.rows), <<>>, "ok"))
    IN  /\ u.state = "running"
        /\ u.pc = "ext_query"
        /\ \/ \E e1, e2 \in BOOLEAN :
                 runs' = [runs EXCEPT ![r] =
                    table_failure(log(u, DbCall("oracle", "SELECT", "", u.idx,
                                                0, <<>>, "raise")),
                                  OracleError, e1, e2)]
           \/ \E rt \in ResultTables :
                 /\ empty(lower_columns(rt))
                 /\ runs' = [runs EXCEPT ![r] = next_stmt(q(rt))]
           \/ \E rt \in ResultTables : \E e1, e2 \in BOOLEAN :
                 /\ ~ empty(lower_columns(rt))
                 /\ stmt.func = <<>>
                 /\ runs' = [runs EXCEPT ![r] =
                       table_failure([q(rt) EXCEPT !.df = lower_columns(rt)],
                                     NoFunctionError, e1, e2)]
           \/ \E rt \in ResultTables :
                 /\ ~ empty(lower_columns(rt))
                 /\ stmt.func # <<>>
                 /\ runs' = [runs EXCEPT ![r] =
                       [q(rt) EXCEPT !.df = lower_columns(rt),
                                     !.destino = derive_destino(stmt.func),
                                     !.pc = "ext_schema"]]
        /\ UNCHANGED <<flag, tables, oraProg>>

\* an introspection that accepts an empty catalog answer
schema_not_found_never(rows) == FALSE

\* get_sqlserver_schema: if not rows: raise ValueError(...)
schema_not_found(rows) == rows = <<>>

\* line 286: the catalog query raises, or returns the rows of the table or
\* none
ext_schema(r) ==
    LET u == runs[r]
        q(rows) == log(u, DbCall("mssql", "CATALOG", u.destino, u.idx,
                                 Len(rows), <<>>, "ok"))
    IN  /\ u.state = "running"
        /\ u.pc = "ext_schema"
        /\ \/ \E e1, e2 \in BOOLEAN :
                 runs' = [runs EXCEPT ![r] =
                    table_failure(log(u, DbCall("mssql", "CATALOG", u.destino,
                                                u.idx, 0, <<>>, "raise")),
                                  MsSqlError, e1, e2)]
           \/ \E rows \in {Catalog(u.destino), <<>>} : \E e1, e2 \in BOOLEAN :
                 /\ schema_not_found(rows)
                 /\ runs' = [runs EXCEPT ![r] =
                       table_failure(q(rows), ColumnsNotFound(u.destino),
                                     e1, e2)]
           \/ \E rows \in {Catalog(u.destino), <<>>} :
                 /\ ~ schema_not_found(rows)
                 /\ runs' = [runs EXCEPT ![r] =
                       [q(rows) EXCEPT !.schema = schema_dict(rows),
                                       !.pc = "ext_reconcile"]]
        /\ UNCHANGED <<flag, tables, oraProg>>

\* lines 290-301: rename, backfill, drop
ext_reconcile(r) ==
    LET u == runs[r]
    IN  /\ u.state = "running"
        /\ u.pc = "ext_reconcile"
        /\ runs' = [runs EXCEPT ![r] =
              [u EXCEPT !.df = reconcile(u.df, u.schema), !.pc = "ext_cast"]]
        /\ UNCHANGED <<flag, tables, oraProg>>

\* lines 303-306: cast, then df[cols_ordered]
ext_cast(r) ==
    LET u == runs[r]
    IN  /\ u.state = "running"
        /\ u.pc = "ext_cast"
        /\ \/ \E e1, e2 \in BOOLEAN :
                 /\ cast_raises(u.df, u.schema)
                 /\ runs' = [runs EXCEPT ![r] =
                       table_failure(u, cast_error(u.df, u.schema), e1, e2)]
           \/ /\ ~ cast_raises(u.df, u.schema)
              /\ runs' = [runs EXCEPT ![r] =
                    [u EXCEPT !.df = reorder(cast_df_to_schema(u.df, u.schema),
                                             u.schema),
                              !.pc = "ext_truncate"]]
        /\ UNCHANGED <<flag, tables, oraProg>>

\* line 324: TRUNCATE TABLE destino, autocommit
ext_truncate(r) ==
    LET u == runs[r]
        q(out) == log(u, DbCall("mssql", "TRUNCATE", u.destino, u.idx,
                                0, <<>>, out))
    IN  /\ u.state = "running"
        /\ u.pc = "ext_truncate"
        /\ \/ \E e1, e2 \in BOOLEAN :
                 /\ runs' = [runs EXCEPT ![r] =
                       table_failure(q("raise"), MsSqlError, e1, e2)]
                 /\ UNCHANGED tables
           \/ /\ runs' = [runs EXCEPT ![r] =
                    [q("ok") EXCEPT !.pc = "ext_insert"]]
              /\ tables' = [tables EXCEPT ![u.destino] = truncate(@)]
        /\ UNCHANGED <<flag, oraProg>>

\* lines 326-332: safe_insert_rows; the insert completes, or raises at row i
\* with the batches before it committed
ext_insert(r) ==
    LET u == runs[r]
        rows == row_tuples(u.df)
    IN  /\ u.state = "running"
        /\ u.pc = "ext_insert"
        /\ \/ /\ runs' = [runs EXCEPT ![r] =
                    next_stmt(log(u, DbCall("mssql", "INSERT", u.destino,
                                            u.idx, 0, rows, "ok")))]
              /\ tables' = [tables EXCEPT ![u.destino] = insert_rows(@, rows)]
           \/ \E i \in 1..(Len(rows) + 1) : \E e1, e2 \in BOOLEAN :
                 LET done == committed_before(rows, i, commit_every)
                 IN  /\ runs' = [runs EXCEPT ![r] =
                           table_failure(
                              log(u, DbCall("mssql", "INSERT", u.destino,
                                            u.idx, 0, done, "raise")),
                              MsSqlError, e1, e2)]
                     /\ tables' = [tables EXCEPT ![u.destino] =
                                      insert_rows(@, done)]
        /\ UNCHANGED <<flag, oraProg>>

(***************************************************************************)
(* copia_programacao (lines 347-366).                                      *)
(***************************************************************************)
ProgTable == "SYSDATACOM.TB_LSB_INT_PROGRAMACAO"

\* list(df.itertuples(index=False, name=None))
itertuples(df) == df.rows

\* line 353: the read raises, returns nothing (return), or returns rows
copy_read(r) ==
    LET u == runs[r]
        q(n, out) == log(u, DbCall("mssql", "SELECT", "LSB_INT_Programacao",
                                   0, n, <<>>, out))
    IN  /\ u.state = "running"
        /\ u.pc = "copy_read"
        /\ \/ \E enviado \in BOOLEAN :
                 runs' = [runs EXCEPT ![r] =
                    except_notify_raise(q(0, "raise"), "copia_programacao",
                        MsSqlError, <<"copia da programacao">>, enviado)]
           \/ \E df \in ProgramacaoTables :
                 /\ empty(df)
                 /\ runs' = [runs EXCEPT ![r] =
                       task_success(q(Len(df.rows), "ok"), "copia_programacao")]
           \/ \E df \in ProgramacaoTables :
                 /\ ~ empty(df)
                 /\ runs' = [runs EXCEPT ![r] =
                       [q(Len(df.rows), "ok") EXCEPT !.df = df,
                                                     !.pc = "copy_truncate"]]
        /\ UNCHANGED <<flag, tables, oraProg>>

\* line 357: TRUNCATE TABLE SYSDATACOM.TB_LSB_INT_PROGRAMACAO, autocommit
copy_truncate(r) ==
    LET u == runs[r]
        q(out) == log(u, DbCall("oracle", "TRUNCATE", ProgTable, 0, 0,
                                <<>>, out))
    IN  /\ u.state = "running"
        /\ u.pc = "copy_truncate"
        /\ \/ \E enviado \in BOOLEAN :
                 /\ runs' = [runs EXCEPT ![r] =
                       except_notify_raise(q("raise"), "copia_programacao",
                           OracleError, <<"copia da programacao">>, enviado)]
                 /\ UNCHANGED oraProg
           \/ /\ runs' = [runs EXCEPT ![r] =
                    [q("ok") EXCEPT !.pc = "copy_insert"]]
              /\ oraProg' = truncate(oraProg)
        /\ UNCHANGED <<flag, tables>>

\* lines 358-363: oracle.insert_rows(..., commit_every=1000)
copy_insert(r) ==
    LET u == runs[r]
        rows == itertuples(u.df)
    IN  /\ u.state = "running"
        /\ u.pc = "copy_insert"
        /\ \/ /\ runs' = [runs EXCEPT ![r] =
                    task_success(log(u, DbCall("oracle", "INSERT", ProgTable,
                                               0, 0, rows, "ok")),
                                 "copia_programacao")]
              /\ oraProg' = insert_rows(oraProg, rows)
           \/ \E i \in 1..(Len(rows) + 1) : \E enviado \in BOOLEAN :
                 LET done == committed_before(rows, i, commit_every)
                 IN  /\ runs' = [runs EXCEPT ![r] =
                           except_notify_raise(
                              log(u, DbCall("oracle", "INSERT", ProgTable,
                                            0, 0, done, "raise")),
                              "copia_programacao", OracleError,
                              <<"copia da programacao">>, enviado)]
                     /\ oraProg' = insert_rows(oraProg, done)
        /\ UNCHANGED <<flag, tables>>

(***************************************************************************)
(* ajusta_roda_integraca_aps (lines 368-404).                              *)
(***************************************************************************)
\* an UPDATE that leaves the row as it is
update_flag_keep(value) == value

\* UPDATE TB_CONFIG SET VALUE = 'N' WHERE PARAM = 'RODA_INTEGRACAO_APS'
update_flag(value) == IF value = "absent" THEN "absent" ELSE "N"

\* if result and result[0] == 'N'
verified(value) == value = "N"

\* line 384: the UPDATE raises, or runs and commits
reset_update(r) ==
    LET u == runs[r]
        q(out) == log(u, DbCall("oracle", "UPDATE", "TB_CONFIG", 0, 0,
                                <<>>, out))
    IN  /\ u.state = "running"
        /\ u.pc = "reset_update"
        /\ \/ \E enviado \in BOOLEAN :
                 /\ runs' = [runs EXCEPT ![r] =
                       except_notify_raise(q("raise"),
                           "ajusta_roda_integraca_aps",
                           OracleError,
                           <<"atualizacao do parametro RODA_INTEGRACAO_APS">>,
                           enviado)]
                 /\ UNCHANGED flag
           \/ /\ runs' = [runs EXCEPT ![r] =
                    [q("ok") EXCEPT !.pc = "reset_verify"]]
              /\ flag' = update_flag(flag)
        /\ UNCHANGED <<tables, oraProg>>

\* lines 392-400: the read-back raises, or returns the row, which is 'N' or
\* makes the callable raise
reset_verify(r) ==
    LET u == runs[r]
        q(out) == log(u, DbCall("oracle", "SELECT", "TB_CONFIG", 0, 1,
                                <<>>, out))
    IN  /\ u.state = "running"
        /\ u.pc = "reset_verify"
        /\ \/ \E enviado \in BOOLEAN :
                 runs' = [runs EXCEPT ![r] =
                    except_notify_raise(q("raise"), "ajusta_roda_integraca_aps",
                        OracleError,
                        <<"atualizacao do parametro RODA_INTEGRACAO_APS">>,
                        enviado)]
           \/ \E enviado \in BOOLEAN :
                 runs' = [runs EXCEPT ![r] =
                    IF verified(flag)
                    THEN task_success(q("ok"), "ajusta_roda_integraca_aps")
                    ELSE except_notify_raise(q("ok"), "ajusta_roda_integraca_aps",
                            VerifyError,
                            <<"atualizacao do parametro RODA_INTEGRACAO_APS">>,
                            enviado)]
        /\ UNCHANGED <<flag, tables, oraProg>>

(***************************************************************************)
(* The specification.                                                      *)
(***************************************************************************)
Next ==
    \/ \E r \in Slots : StartRun(r)
    \/ \E r \in Slots : \E t \in Tasks : Agenda(r, t)
    \/ \E r \in Slots : UpdateState(r)
    \/ \E v \in FlagValues : OperadorAjustaFlag(v)
    \/ \E r \in Slots : checa_flag(r)
    \/ \E r \in Slots : ext_open(r)
    \/ \E r \in Slots : ext_query(r)
    \/ \E r \in Slots : ext_schema(r)
    \/ \E r \in Slots : ext_reconcile(r)
    \/ \E r \in Slots : ext_cast(r)
    \/ \E r \in Slots : ext_truncate(r)
    \/ \E r \in Slots : ext_insert(r)
    \/ \E r \in Slots : copy_read(r)
    \/ \E r \in Slots : copy_truncate(r)
    \/ \E r \in Slots : copy_insert(r)
    \/ \E r \in Slots : reset_update(r)
    \/ \E r \in Slots : reset_verify(r)

Spec == Init /\ [][Next]_vars

(***************************************************************************)
(* Properties.                                                             *)
(***************************************************************************)
\* the three steps of the chain between the gate and fim_ok
ChainTasks == {"extrai_envia_sqlserver", "copia_programacao",
               "ajusta_roda_integraca_aps"}

\* the run is over: the scheduler has given it its final state
Ended(u) == u.state \in {"success", "failed"}

\* the python callable of task t was started in the run
Executed(u, t) == u.ts[t] \in {"running", "success", "failed"}

Done(u)        == u.ts["fim_ok"] = "success"
SkippedNoOp(u) == u.ts["fim_sem_execucao"] = "success"

\* the database calls of the run that write
Writes(u) == {i \in 1..Len(u.ops) : u.ops[i].op \in {"TRUNCATE", "INSERT", "UPDATE"}}

\* the statements of the queries file, as the driver reads them
Selects == read_selects(QUERIES_FILE)

(* C1: in a run whose gate read the flag as 'N', none of the three chain   *)
(* steps ever executes, the run issues no TRUNCATE, INSERT or UPDATE, both *)
(* databases stay as they were when the run started, and the run ends in   *)
(* SkippedNoOp (fim_sem_execucao succeeded, the run is not failed).        *)
C1_FlagNSkips ==
    \A r \in Slots :
       LET u == runs[r]
       IN  u.flagRead = "N" =>
              /\ \A t \in ChainTasks : ~ Executed(u, t)
              /\ Writes(u) = {}
              /\ u.state = "running" =>
                    /\ tables = u.pre.tables
                    /\ oraProg = u.pre.oraProg
                    /\ flag = u.pre.flag
              /\ Ended(u) =>
                    /\ SkippedNoOp(u)
                    /\ u.state = "success"
                    /\ u.post = u.pre

C1_Witness ==
    \E r \in Slots :
       /\ runs[r].flagRead = "N"
       /\ Ended(runs[r])
       /\ SkippedNoOp(runs[r])
       /\ \A t \in ChainTasks : runs[r].ts[t] = "skipped"

(* C2: in a run that passed the gate with flag 'S', once the catalog has   *)
(* returned zero rows for a destination table T: the extraction has failed *)
(* with the "columns not found" error of T, a notification whose text      *)
(* holds the name T has been issued, no INSERT into T was issued and T     *)
(* holds the rows it had, the copy and the reset never execute, the flag   *)
(* stays 'S', and the run ends Failed.                                     *)
C2_SchemaErrorFails ==
    \A r \in Slots :
       LET u == runs[r]
       IN  \A i \in 1..Len(u.ops) :
              (/\ u.flagRead = "S"
               /\ u.ops[i].op = "CATALOG" /\ u.ops[i].out = "ok"
               /\ u.ops[i].n = 0)
              => LET T == u.ops[i].tbl
                 IN  /\ u.ts["extrai_envia_sqlserver"] = "failed"
                     /\ u.raised["extrai_envia_sqlserver"] = ColumnsNotFound(T)
                     /\ \E k \in 1..Len(u.notifs) :
                           T \in Range(u.notifs[k].mensagem)
                     /\ \A j \in 1..Len(u.ops) :
                           ~ (u.ops[j].op = "INSERT" /\ u.ops[j].tbl = T)
                     /\ ~ Executed(u, "copia_programacao")
                     /\ ~ Executed(u, "ajusta_roda_integraca_aps")
                     /\ u.state = "running" =>
                           flag = "S" /\ tables[T] = u.pre.tables[T]
                     /\ Ended(u) =>
                           /\ u.state = "failed"
                           /\ u.post.flag = "S"
                           /\ u.post.tables[T] = u.pre.tables[T]
                           /\ u.ts["copia_programacao"] = "upstream_failed"
                           /\ u.ts["ajusta_roda_integraca_aps"] = "upstream_failed"

C2_Witness ==
    \E r \in Slots :
       /\ runs[r].flagRead = "S"
       /\ runs[r].state = "failed"
       /\ \E i \in 1..Len(runs[r].ops) :
             /\ runs[r].ops[i].op = "CATALOG" /\ runs[r].ops[i].n = 0
             /\ runs[r].ops[i].out = "ok" /\ runs[r].ops[i].tbl = "dbo.lote"
       /\ \E k \in 1..Len(runs[r].notifs) :
             /\ "dbo.lote" \in Range(runs[r].notifs[k].mensagem)
             /\ runs[r].notifs[k].enviado

(* C3: at the end of every run, fim_ok has succeeded if and only if each   *)
(* of the three chain steps executed and succeeded; and a chain step       *)
(* executes only after the step before it succeeded.                       *)
C3_DoneIffChainSucceeded ==
    \A r \in Slots :
       LET u == runs[r]
       IN  /\ Executed(u, "copia_programacao") =>
                u.ts["extrai_envia_sqlserver"] = "success"
           /\ Executed(u, "ajusta_roda_integraca_aps") =>
                u.ts["copia_programacao"] = "success"
           /\ Ended(u) =>
                (Done(u) <=> \A t \in ChainTasks : u.ts[t] = "success")

(* C4: at the end of every run in which a chain step failed, the run is    *)
(* Failed and the flag is 'S'.                                             *)
C4_FailureLeavesFlagS ==
    \A r \in Slots :
       LET u == runs[r]
       IN  (Ended(u) /\ \E t \in ChainTasks : u.ts[t] = "failed")
           => (u.state = "failed" /\ u.post.flag = "S")

(* C5 as stated: in a run whose flag query raised or found no row, a       *)
(* notification has been issued, the run ends in SkippedNoOp and not in    *)
(* Failed, and no chain step executes.                                     *)
C5_ReadFailureSkips ==
    \A r \in Slots :
       LET u == runs[r]
       IN  (Ended(u) /\ u.flagRead \in {"error", "absent"})
           => /\ Len(u.notifs) >= 1
              /\ SkippedNoOp(u)
              /\ u.state # "failed"
              /\ \A t \in ChainTasks : ~ Executed(u, t)

(* C5 amended: when the flag query raises, checa_flag issues exactly one   *)
(* notification (context: the check of the flag) and fails with the error  *)
(* of the query; no chain step executes, no database call is made, and the *)
(* run ends Failed with fim_sem_execucao not run. When the flag row is     *)
(* absent, no notification is issued, no chain step executes, nothing is   *)
(* written, and the run ends in SkippedNoOp.                               *)
C5_ReadFailureFailsAbsentSkips ==
    \A r \in Slots :
       LET u == runs[r]
       IN  /\ u.flagRead = "error" =>
                 /\ u.ts["checa_flag"] = "failed"
                 /\ u.raised["checa_flag"] = OracleError
                 /\ Len(u.notifs) = 1
                 /\ u.notifs[1].mensagem =
                       mensagem(OracleError, <<"verificacao da flag de execucao">>)
                 /\ \A t \in ChainTasks : ~ Executed(u, t)
                 /\ u.ops = <<>>
                 /\ Ended(u) =>
                       /\ u.state = "failed"
                       /\ ~ SkippedNoOp(u)
                       /\ ~ Done(u)
                       /\ u.post = u.pre
           /\ u.flagRead = "absent" =>
                 /\ u.ts["checa_flag"] = "success"
                 /\ u.notifs = <<>>
                 /\ \A t \in ChainTasks : ~ Executed(u, t)
                 /\ u.ops = <<>>
                 /\ Ended(u) =>
                       /\ u.state = "success"
                       /\ SkippedNoOp(u)
                       /\ u.post = u.pre

C5_Witness ==
    \E r \in Slots :
       /\ runs[r].flagRead = "error"
       /\ runs[r].state = "failed"
       /\ runs[r].ts["fim_sem_execucao"] = "upstream_failed"
       /\ Len(runs[r].notifs) = 1

\* the database calls the extraction made for the statements of the file
ExtOps(u) == {i \in 1..Len(u.ops) : u.ops[i].stmt > 0}

\* the statements the extraction ran in Oracle, in the order it ran them
ExtSelects(u) ==
    SelectSeq(u.ops, LAMBDA o : o.stmt > 0 /\ o.op = "SELECT")

\* the rows table tbl holds as far as run u is concerned: now while the run
\* is going on, when it ended afterwards
RowsOf(u, tbl) ==
    IF u.state = "running" THEN tables[tbl] ELSE u.post.tables[tbl]

(* C6: the extraction runs the statements in file order (its k-th source   *)
(* query is the one of statement k, and the calls of a statement never     *)
(* precede those of an earlier one); once a step has failed for statement  *)
(* k the extraction has failed, no call is ever made for a statement after *)
(* k, and every table a statement before k loaded still holds the rows     *)
(* that were inserted.                                                     *)
C6_FailureStopsLaterStatements ==
    \A r \in Slots :
       LET u == runs[r]
       IN  /\ \A k \in 1..Len(ExtSelects(u)) : ExtSelects(u)[k].stmt = k
           /\ \A i, j \in ExtOps(u) : i < j => u.ops[i].stmt <= u.ops[j].stmt
           /\ u.failedStmt > 0 =>
                 /\ u.ts["extrai_envia_sqlserver"] = "failed"
                 /\ \A i \in ExtOps(u) : u.ops[i].stmt <= u.failedStmt
                 /\ \A i \in ExtOps(u) :
                       (/\ u.ops[i].stmt < u.failedStmt
                        /\ u.ops[i].op = "INSERT")
                       => /\ u.ops[i].out = "ok"
                          /\ RowsOf(u, u.ops[i].tbl) = u.ops[i].rows

C6_Witness ==
    \E r \in Slots :
       LET u == runs[r]
       IN  /\ u.failedStmt = 3
           /\ u.state = "failed"
           /\ \E i \in ExtOps(u) :
                 /\ u.ops[i].op = "INSERT" /\ u.ops[i].stmt = 1
                 /\ u.ops[i].out = "ok" /\ Len(u.ops[i].rows) = 2
                 /\ u.post.tables["dbo.lote"] = u.ops[i].rows
                 /\ u.post.tables["dbo.lote"] # u.pre.tables["dbo.lote"]

\* the destination tables of statement k ({} when it names no function)
DestinoOf(k) ==
    IF Selects[k].func = <<>> THEN {} ELSE {derive_destino(Selects[k].func)}

(* C7: when the source query of statement k returned zero rows, the query  *)
(* is the only call ever made for statement k: no catalog query, TRUNCATE  *)
(* or INSERT for its destination table, which keeps the rows it had when   *)
(* the run started; statement k is not the statement that failed, and      *)
(* right after the query no error has been raised, no notification has     *)
(* been issued, and the driver is at statement k + 1 (or has returned      *)
(* successfully when k is the last one).                                   *)
C7_EmptyResultSkipped ==
    \A r \in Slots :
       LET u == runs[r]
       IN  \A i \in ExtOps(u) :
              (u.ops[i].op = "SELECT" /\ u.ops[i].out = "ok" /\ u.ops[i].n = 0)
              => LET k == u.ops[i].stmt
                 IN  /\ \A j \in ExtOps(u) : u.ops[j].stmt = k => j = i
                     /\ u.failedStmt # k
                     /\ \A T \in DestinoOf(k) :
                           /\ \A j \in 1..Len(u.ops) : u.ops[j].tbl # T
                           /\ RowsOf(u, T) = u.pre.tables[T]
                     /\ i = Len(u.ops) =>
                           /\ u.notifs = <<>>
                           /\ u.raised["extrai_envia_sqlserver"] = NoError
                           /\ IF k < Len(Selects)
                              THEN /\ u.pc = "ext_query"
                                   /\ u.idx = k + 1
                              ELSE u.ts["extrai_envia_sqlserver"] = "success"

C7_Witness ==
    \E r \in Slots :
       LET u == runs[r]
       IN  /\ Len(u.ops) = 2
           /\ u.ops[1].op = "SELECT" /\ u.ops[1].stmt = 1
           /\ u.ops[1].n = 0 /\ u.ops[1].out = "ok"
           /\ u.ops[2].op = "SELECT" /\ u.ops[2].stmt = 2
           /\ u.ops[2].out = "ok"
           /\ u.notifs = <<>>

(* C8: for the rows C of the table the writer is given and the rows the    *)
(* destination table holds at that moment, TRUNCATE followed by the insert *)
(* of C leaves exactly C, and doing both once more with C leaves the same  *)
(* rows; and right after the insert of a statement has completed its       *)
(* destination table holds exactly the rows that were inserted.            *)
C8_ReplaceLoadIdempotent ==
    \A r \in Slots :
       LET u == runs[r]
       IN  /\ (u.state = "running" /\ u.pc = "ext_truncate") =>
                 LET C == row_tuples(u.df)
                     once == insert_rows(truncate(tables[u.destino]), C)
                     twice == insert_rows(truncate(once), C)
                 IN  once = C /\ twice = once
           /\ (/\ u.state = "running"
               /\ u.ops # <<>>
               /\ u.ops[Len(u.ops)].op = "INSERT"
               /\ u.ops[Len(u.ops)].stmt > 0
               /\ u.ops[Len(u.ops)].out = "ok")
              => tables[u.ops[Len(u.ops)].tbl] = u.ops[Len(u.ops)].rows

C8_Witness ==
    \E r \in Slots :
       LET u == runs[r]
           last == u.ops[Len(u.ops)]
       IN  /\ u.state = "running"
           /\ u.ops # <<>>
           /\ last.op = "INSERT" /\ last.stmt > 0 /\ last.out = "ok"
           /\ Len(last.rows) > 0
           /\ u.pre.tables[last.tbl] = last.rows
           /\ tables[last.tbl] = last.rows

(* C9 as stated: for every result table and schema, the table that comes   *)
(* out of rename, backfill, drop and reorder has the column list of the    *)
(* schema: same names, same order, each once.                              *)
C9_ColumnsEqualSchema ==
    \A r \in Slots :
       LET u == runs[r]
       IN  (u.state = "running" /\ u.pc = "ext_cast")
           => reorder(u.df, u.schema).cols = keys(u.schema)

\* whether value x is what a column of type sql_type may hold after the cast
typed(sql_type, x) ==
    CASE sql_type \in DATETIME_TYPES -> x = None \/ x.t = "datetime"
      [] sql_type \in DATE_TYPES -> x = None \/ x.t = "date"
      [] sql_type \in TIME_TYPES -> x = None \/ x.t = "time"
      [] SQLSERVER_TO_PY(sql_type) = "int64" ->
            x.t = "int" /\ x.v \in {"0", "1", "2", "7", "12"}
      [] SQLSERVER_TO_PY(sql_type) = "bool" -> x \in {PyTrue, PyFalse}
      [] SQLSERVER_TO_PY(sql_type) = "float64" ->
            x = None \/ x.t \in {"int", "float"}
      [] OTHER -> ~ (x \in {NaN, NaT})

(* C10 as stated: cast_df_to_schema never raises on the values of a table  *)
(* (one whose labels are all distinct), and in the table it returns no     *)
(* value of an integer or boolean column is null and every value of        *)
(* another column is of the column's type or null.                         *)
C10_CastNeverRaises ==
    \A r \in Slots :
       LET u == runs[r]
       IN  (/\ u.state = "running" /\ u.pc = "ext_cast"
            /\ \A j \in 1..Len(u.df.cols) : ~ is_frame(u.df, u.df.cols[j]))
           => /\ ~ cast_raises(u.df, u.schema)
              /\ LET c == cast_df_to_schema(u.df, u.schema)
                 IN  \A i \in 1..Len(c.rows) : \A j \in 1..Len(c.cols) :
                        typed(schema_get(u.schema, c.cols[j]), c.rows[i][j])

\* the stage whose handler issues a notification with the given context
StageOfContext(c) ==
    CASE c = "verificacao da flag de execucao" -> "checa_flag"
      [] c \in {"processamento da tabela", "extracao e envio para SQL Server"} ->
            "extrai_envia_sqlserver"
      [] c = "copia da programacao" -> "copia_programacao"
      [] OTHER -> "ajusta_roda_integraca_aps"

\* the stage that issued notification n (its text starts with the context)
StageOf(n) == StageOfContext(n.mensagem[2])

(* C11: every notification of a run, delivered or not, reports the error   *)
(* its stage ended with: the stage that issued it has failed (it has not   *)
(* succeeded and is not running on) and the exception it raised is the     *)
(* error the notification was made for; and every failed stage raised an   *)
(* error that a notification of the run reports.                           *)
C11_NotifyFailureKeepsError ==
    \A r \in Slots :
       LET u == runs[r]
       IN  /\ \A k \in 1..Len(u.notifs) :
                 /\ u.ts[StageOf(u.notifs[k])] = "failed"
                 /\ u.raised[StageOf(u.notifs[k])] = u.notifs[k].erro
                 /\ u.notifs[k].erro # NoError
           /\ \A t \in Tasks :
                 u.ts[t] = "failed" =>
                    \E k \in 1..Len(u.notifs) :
                       StageOf(u.notifs[k]) = t /\ u.notifs[k].erro = u.raised[t]
           /\ \A t \in Tasks : u.ts[t] # "failed" => u.raised[t] = NoError

C11_Witness ==
    \E r \in Slots :
       LET u == runs[r]
       IN  /\ u.state = "failed"
           /\ u.ts["copia_programacao"] = "failed"
           /\ u.raised["copia_programacao"] = MsSqlError
           /\ Len(u.notifs) = 1
           /\ ~ u.notifs[1].enviado
           /\ u.notifs[1].erro = MsSqlError

(* C12 as stated: at the end of every run each destination table holds     *)
(* either the rows it had when the run started or all the rows of a table  *)
(* the run inserted completely; it is never left empty or partly loaded.   *)
C12_AtomicReplace ==
    \A r \in Slots :
       LET u == runs[r]
       IN  Ended(u) =>
              \A T \in DestTables :
                 \/ u.post.tables[T] = u.pre.tables[T]
                 \/ \E i \in ExtOps(u) :
                       /\ u.ops[i].op = "INSERT" /\ u.ops[i].out = "ok"
                       /\ u.ops[i].tbl = T
                       /\ u.post.tables[T] = u.ops[i].rows

\* the schema mapping with its entries in the order f gives
Reordered(schema_map, f) == [i \in 1..Len(schema_map) |-> schema_map[f[i]]]

\* the schema columns whose normalized form is the one of column c
NormalizedMatches(c, schema_map) ==
    {k \in Range(keys(schema_map)) : normalize(k) = normalize(c)}

(* C13 as stated: for every column of the incoming table, a column that is *)
(* a schema column keeps its name, otherwise an alias to a schema column   *)
(* is taken, otherwise the column is renamed only when its normalized form *)
(* is the normalized form of exactly one schema column; and the name it    *)
(* gets is the same for every order of the entries of the schema mapping.  *)
C13_RenamePriority ==
    \A r \in Slots :
       LET u == runs[r]
       IN  (u.state = "running" /\ u.pc = "ext_reconcile") =>
              \A j \in 1..Len(u.df.cols) :
                 LET c == u.df.cols[j]
                     ali == {p \in COLUMN_MAPPING :
                                p[1] = c /\ p[2] \in Range(keys(u.schema))}
                 IN  /\ c \in Range(keys(u.schema)) =>
                           rename_target(c, u.schema) = c
                     /\ (c \notin Range(keys(u.schema)) /\ ali # {}) =>
                           \E p \in ali : rename_target(c, u.schema) = p[2]
                     /\ (c \notin Range(keys(u.schema)) /\ ali = {}
                         /\ rename_target(c, u.schema) # c) =>
                           Cardinality(NormalizedMatches(c, u.schema)) = 1
                     /\ \A f \in Permutations(1..Len(u.schema)) :
                           rename_target(c, Reordered(u.schema, f))
                              = rename_target(c, u.schema)

(* C14 as stated, the retry: whenever a run starts right after a run that  *)
(* passed the gate and ended Failed, the flag not having been changed      *)
(* since that run ended, the flag is 'S', so that the gate of the new run  *)
(* takes the extraction again.                                             *)
C14_FailedRunRetried ==
    [][\A r \in Slots :
          (/\ runs[r].state = "failed"
           /\ runs[r].flagRead = "S"
           /\ runs'[r].state = "running"
           /\ flag = runs[r].post.flag)
          => /\ flag = "S"
             /\ branch_of(flag) = "extrai_envia_sqlserver"]_vars

\* the rows of the Oracle table as far as run u is concerned
OraRowsOf(u) == IF u.state = "running" THEN oraProg ELSE u.post.oraProg

(* C15 as stated: whenever copia_programacao has succeeded in a run, it    *)
(* has read the source table, then truncated the Oracle table, then        *)
(* inserted as many rows as it read, and the Oracle table holds exactly    *)
(* the rows inserted, also when the source table has no rows.              *)
C15_CopyReplacesUnconditionally ==
    \A r \in Slots :
       LET u == runs[r]
       IN  u.ts["copia_programacao"] = "success" =>
              \E i, j, k \in 1..Len(u.ops) :
                 /\ i < j /\ j < k
                 /\ u.ops[i].op = "SELECT"
                 /\ u.ops[i].tbl = "LSB_INT_Programacao"
                 /\ u.ops[i].out = "ok"
                 /\ u.ops[j].op = "TRUNCATE" /\ u.ops[j].tbl = ProgTable
                 /\ u.ops[j].out = "ok"
                 /\ u.ops[k].op = "INSERT" /\ u.ops[k].tbl = ProgTable
                 /\ u.ops[k].out = "ok"
                 /\ Len(u.ops[k].rows) = u.ops[i].n
                 /\ OraRowsOf(u) = u.ops[k].rows

\* the notifications of run u that stage t issued
NotifsOf(u, t) == {k \in 1..Len(u.notifs) : StageOf(u.notifs[k]) = t}

(* C16 as stated: for every stage that has failed in a run exactly one     *)
(* notification attempt was made by that stage, for the error the stage    *)
(* then raised; a stage that has not failed made none.                     *)
C16_OneNotificationPerFailure ==
    \A r \in Slots :
       LET u == runs[r]
       IN  \A t \in Tasks :
              IF u.ts[t] = "failed"
              THEN /\ Cardinality(NotifsOf(u, t)) = 1
                   /\ \A k \in NotifsOf(u, t) : u.notifs[k].erro = u.raised[t]
              ELSE NotifsOf(u, t) = {}

\* the destination name was derived while statement k was processed: its
\* source query returned rows and the statement names a function
Derived(u, k) ==
    /\ Selects[k].func # <<>>
    /\ \E i \in ExtOps(u) :
          /\ u.ops[i].stmt = k /\ u.ops[i].op = "SELECT"
          /\ u.ops[i].out = "ok" /\ u.ops[i].n > 0

(* C17 as stated: when the processing of statement k has failed, the       *)
(* per-table notification names the destination derived from statement k   *)
(* if the failure came after the derivation, and 'desconhecida' if it came *)
(* before; it never names the destination of an earlier statement.         *)
C17_NotificationNamesOwnTable ==
    \A r \in Slots :
       LET u == runs[r]
           k == u.failedStmt
       IN  k > 0 =>
              \A n \in 1..Len(u.notifs) :
                 u.notifs[n].mensagem[2] = "processamento da tabela" =>
                    u.notifs[n].mensagem[3] =
                       IF Derived(u, k) THEN derive_destino(Selects[k].func)
                       ELSE "desconhecida"

(* C18: at most one run is active (not yet ended) at any time, so between  *)
(* the TRUNCATE of a run and the completion of its insert no other run is  *)
(* there to write the table: right after an insert that the TRUNCATE of    *)
(* the same statement precedes, the table holds the rows inserted; and at  *)
(* the end of every run that reached fim_ok, every destination table the   *)
(* run wrote holds exactly the rows the run inserted into it, once.        *)
C18_SingleFlight ==
    /\ Cardinality(active) <= 1
    /\ \A r \in Slots :
          LET u == runs[r]
          IN  /\ \A i \in ExtOps(u) :
                    u.ops[i].op = "INSERT" =>
                       /\ i > 1
                       /\ u.ops[i - 1].op = "TRUNCATE"
                       /\ u.ops[i - 1].tbl = u.ops[i].tbl
                       /\ u.ops[i - 1].out = "ok"
                       /\ (i = Len(u.ops) /\ u.state = "running") =>
                             tables[u.ops[i].tbl] = u.ops[i].rows
              /\ (Ended(u) /\ Done(u)) =>
                    \A i \in ExtOps(u) :
                       u.ops[i].op \in {"TRUNCATE", "INSERT"} =>
                          /\ u.ops[i].out = "ok"
                          /\ u.ops[i].op = "INSERT" =>
                                u.post.tables[u.ops[i].tbl] = u.ops[i].rows

C18_Witness ==
    \E r \in Slots :
       LET u == runs[r]
       IN  /\ u.state = "success"
           /\ Done(u)
           /\ u.flagRead = "S"
           /\ \E i, j \in ExtOps(u) :
                 /\ u.ops[i].op = "INSERT" /\ u.ops[i].tbl = "dbo.lote"
                 /\ u.ops[j].op = "INSERT" /\ u.ops[j].tbl = "dbo.estoque"
                 /\ Len(u.ops[i].rows) = 2
                 /\ u.post.tables["dbo.lote"] = u.ops[i].rows
                 /\ u.post.tables["dbo.estoque"] = u.ops[j].rows
                 /\ u.pre.tables["dbo.lote"] # u.ops[i].rows

(* C19: a TRUNCATE for statement k is issued only after, for the same      *)
(* statement, the source query returned rows, the destination name was     *)
(* derived, the catalog returned the columns of that destination, and the  *)
(* table was reconciled and cast without error (the table at the TRUNCATE  *)
(* has the columns of the schema and values of their types); and when      *)
(* statement k has failed without a TRUNCATE, or is still before it, its   *)
(* destination table holds the rows it had.                                *)
C19_TruncateAfterPreparation ==
    \A r \in Slots :
       LET u == runs[r]
       IN  /\ \A i \in ExtOps(u) :
                 u.ops[i].op = "TRUNCATE" =>
                    LET k == u.ops[i].stmt
                    IN  /\ Derived(u, k)
                        /\ u.ops[i].tbl = derive_destino(Selects[k].func)
                        /\ i > 2
                        /\ u.ops[i - 1].op = "CATALOG"
                        /\ u.ops[i - 1].stmt = k
                        /\ u.ops[i - 1].tbl = u.ops[i].tbl
                        /\ u.ops[i - 1].out = "ok"
                        /\ u.ops[i - 1].n > 0
                        /\ u.ops[i - 2].op = "SELECT"
                        /\ u.ops[i - 2].stmt = k
           /\ (u.state = "running" /\ u.pc = "ext_truncate") =>
                 /\ u.df.cols = keys(u.schema)
                 /\ \A i \in 1..Len(u.df.rows) : \A j \in 1..Len(u.df.cols) :
                       typed(schema_get(u.schema, u.df.cols[j]), u.df.rows[i][j])
           /\ (/\ u.state = "running"
               /\ u.pc \in {"ext_schema", "ext_reconcile", "ext_cast",
                            "ext_truncate"})
              => tables[u.destino] = u.pre.tables[u.destino]
           /\ (/\ u.failedStmt > 0
               /\ \A i \in ExtOps(u) :
                     ~ (u.ops[i].op = "TRUNCATE" /\ u.ops[i].stmt = u.failedStmt))
              => \A T \in DestinoOf(u.failedStmt) :
                    RowsOf(u, T) = u.pre.tables[T]

C19_Witness ==
    \E r \in Slots :
       LET u == runs[r]
       IN  /\ u.failedStmt = 3
           /\ u.raised["extrai_envia_sqlserver"] = NonFiniteError
           /\ \E i \in ExtOps(u) :
                 /\ u.ops[i].op = "CATALOG" /\ u.ops[i].stmt = 3
                 /\ u.ops[i].out = "ok" /\ u.ops[i].n = 3
           /\ \E i \in ExtOps(u) :
                 u.ops[i].op = "TRUNCATE" /\ u.ops[i].stmt = 1
           /\ \A i \in ExtOps(u) :
                 ~ (u.ops[i].op = "TRUNCATE" /\ u.ops[i].stmt = 3)
           /\ RowsOf(u, "dbo.estoque") = u.pre.tables["dbo.estoque"]
           /\ u.pre.tables["dbo.estoque"] # <<>>

\* the calls of run u that write TB_CONFIG
FlagWrites(u) ==
    {i \in 1..Len(u.ops) : u.ops[i].op = "UPDATE" /\ u.ops[i].tbl = "TB_CONFIG"}

\* the flag as far as run u is concerned
FlagOf(u) == IF u.state = "running" THEN flag ELSE u.post.flag

(* C20: a run issues at most one UPDATE of the flag, and only in           *)
(* ajusta_roda_integraca_aps after the extraction and the copy succeeded;  *)
(* as long as the run has issued none the flag is what it was when the run *)
(* started; right after the UPDATE the flag is 'N'; ajusta has succeeded   *)
(* only if the UPDATE was followed by a read-back and the flag is 'N'; and *)
(* at the end of a run that reached fim_ok through the chain the flag is   *)
(* 'N'.                                                                    *)
C20_FlagWrittenOnlyByReset ==
    \A r \in Slots :
       LET u == runs[r]
       IN  /\ Cardinality(FlagWrites(u)) <= 1
           /\ \A i \in 1..Len(u.ops) :
                 u.ops[i].tbl = "TB_CONFIG" =>
                    /\ u.ts["extrai_envia_sqlserver"] = "success"
                    /\ u.ts["copia_programacao"] = "success"
                    /\ Executed(u, "ajusta_roda_integraca_aps")
           /\ (FlagWrites(u) = {} /\ u.state # "free") => FlagOf(u) = u.pre.flag
           /\ \A i \in FlagWrites(u) :
                 u.ops[i].out = "ok" => FlagOf(u) = "N"
           /\ u.ts["ajusta_roda_integraca_aps"] = "success" =>
                 /\ \E i \in FlagWrites(u) :
                       /\ u.ops[i].out = "ok"
                       /\ i < Len(u.ops)
                       /\ u.ops[i + 1].op = "SELECT"
                       /\ u.ops[i + 1].tbl = "TB_CONFIG"
                       /\ u.ops[i + 1].out = "ok"
                 /\ verified(FlagOf(u))
           /\ (Ended(u) /\ Done(u) /\ u.flagRead = "S") =>
                 /\ u.ts["ajusta_roda_integraca_aps"] = "success"
                 /\ u.post.flag = "N"

C20_Witness ==
    \E r \in Slots :
       LET u == runs[r]
       IN  /\ u.state = "success"
           /\ Done(u)
           /\ u.ts["ajusta_roda_integraca_aps"] = "success"
           /\ u.pre.flag = "S"
           /\ u.post.flag = "N"
           /\ Cardinality(FlagWrites(u)) = 1
=============================================================================
